---- MODULE Spec2Model ----
(***************************************************************************)
(* DiscoveryWrapper (DiscoveryBrowser.cpp): the per-category lists of      *)
(* discovered services, the sighting handler, the expiry sweep and the     *)
(* query surface.                                                          *)
(***************************************************************************)
EXTENDS Integers, Sequences, FiniteSets

\* ------------------------------------------------------------------ bounds
MaxTime == 2
MaxRecords == 2

\* ------------------------------------------------------------ the data model
\* DiscoveryRecord::Service, the values the code names.
Service == {"Unknown", "HyperHDR", "WLED", "PhilipsHue", "Pico", "ESP32_S2", "ESP", "SerialPort"}

\* The six member lists of DiscoveryWrapper.
Stores == {"_hyperhdrSessions", "_esp32s2Devices", "_espDevices", "_hueDevices", "_picoDevices", "_wledDevices"}

\* The service type each member list is fed with (discoveryEventHandler).
TypeOf(store) ==
    CASE store = "_hyperhdrSessions" -> "HyperHDR"
      [] store = "_wledDevices" -> "WLED"
      [] store = "_hueDevices" -> "PhilipsHue"
      [] store = "_picoDevices" -> "Pico"
      [] store = "_esp32s2Devices" -> "ESP32_S2"
      [] store = "_espDevices" -> "ESP"

\* What the discovery sources report, as <<address, port, hostName>>: a service that
\* announces itself under two host names, a second service on the same address, and
\* the local host's own announcement.
Announcements ==
    {<<"10.0.0.5", 80, "alpha">>, <<"10.0.0.5", 80, "beta">>,
     <<"10.0.0.5", 8080, "alpha">>, <<"192.168.1.10", 80, "alpha">>}

\* What QNetworkInterface::allAddresses() returns on this host.
allAddresses == {"192.168.1.10", "127.0.0.1"}

\* Time-to-live of a record, in ticks of the clock.
TTL_WINDOW == 1

VARIABLES
    lists,          \* member list name -> QList<DiscoveryRecord>
    serialDevice,   \* _serialDevice: "nullptr" or the constructed device
    now,            \* the clock
    out,            \* signals emitted and collaborator calls made by the last step, in order
    log,            \* the lines the last step logged, in order
    ret,            \* the list the last call returned
    last            \* the last step: its operation and the place it returned from

\* The threads around the object (section "threads" below).
VARIABLES
    queue,          \* the event queue of the object's thread: posted slot calls, in order
    running         \* thread -> the slot or method it is inside, or Idle

\* One LedDeviceFile (section "LedDeviceFile" below).
VARIABLES
    file,           \* _file: "nullptr", or the QFile "closed" or "open"
    fileName,       \* _fileName
    printTimeStamp, \* _printTimeStamp
    isDeviceReady,  \* _isDeviceReady
    isDeviceInError,\* _isDeviceInError
    written,        \* lines in the file since it was last opened
    retval,         \* what the last call returned
    fileLast        \* the last call

wrapperVars == <<lists, serialDevice, now, out, log, ret, last>>
threadVars == <<queue, running>>
fileVars == <<file, fileName, printTimeStamp, isDeviceReady, isDeviceInError, written, retval, fileLast>>

vars == <<wrapperVars, threadVars, fileVars>>

\* A sighting as a discovery source builds it at time t.
Sighting(type, address, port, hostName, isExists, t) ==
    [type |-> type, address |-> address, port |-> port, hostName |-> hostName,
     isExists |-> isExists, expiry |-> t + TTL_WINDOW]

Sightings(t) ==
    {Sighting(ty, a[1], a[2], a[3], e, t) : ty \in Service, a \in Announcements, e \in BOOLEAN}

\* DiscoveryRecord::operator== and operator!=
RecEq(a, b) == a.type = b.type /\ a.address = b.address /\ a.port = b.port

\* DiscoveryRecord::expired
expired(rec, t) == t > rec.expiry

\* DiscoveryRecord::resetTTL
resetTTL(rec, t) == [rec EXCEPT !.expiry = t + TTL_WINDOW]

\* emit foundService(type, list)
FoundService(type, list) == [sig |-> "foundService", type |-> type, list |-> list]

\* emit requestToScan(type)
RequestToScan(type) == [sig |-> "requestToScan", type |-> type, list |-> <<>>]

\* delete _serialDevice
Delete == [sig |-> "delete", type |-> "SerialPort", list |-> <<>>]

\* LedDeviceFactory::construct(deviceConfig) and _serialDevice->discover(params)
Construct == [sig |-> "construct", type |-> "SerialPort", list |-> <<>>]
Discover == [sig |-> "discover", type |-> "SerialPort", list |-> <<>>]

\* Warning(_log, ...) and Info(_log, ...): the level, the leading word and the record named.
LogLine(level, text, rec) == [level |-> level, text |-> text, rec |-> rec]

\* ------------------------------------------------------------------ cleanUp
\* The value of `action` when the loop ends: the type of the last record removed.
RECURSIVE cleanUpAction(_, _, _)
cleanUpAction(target, t, action) ==
    IF target = <<>> THEN action
    ELSE cleanUpAction(Tail(target), t,
                       IF expired(Head(target), t) THEN Head(target).type ELSE action)

\* The loop leaving after its first removal.
RECURSIVE cleanUpList_stopAtFirst(_, _)
cleanUpList_stopAtFirst(target, t) ==
    IF target = <<>> THEN <<>>
    ELSE IF expired(Head(target), t) THEN Tail(target)
         ELSE <<Head(target)>> \o cleanUpList_stopAtFirst(Tail(target), t)

\* The list cleared as soon as one record has expired.
cleanUpList_dropsAll(target, t) ==
    IF \E i \in 1..Len(target) : expired(target[i], t) THEN <<>> ELSE target

\* The list when the loop ends: i.remove() drops each expired record.
RECURSIVE cleanUpList(_, _)
cleanUpList(target, t) ==
    IF target = <<>> THEN <<>>
    ELSE IF expired(Head(target), t) THEN cleanUpList(Tail(target), t)
         ELSE <<Head(target)>> \o cleanUpList(Tail(target), t)

\* The warnings of the loop: one for each record removed.
RECURSIVE cleanUpLog(_, _)
cleanUpLog(target, t) ==
    IF target = <<>> THEN <<>>
    ELSE IF expired(Head(target), t)
         THEN <<LogLine("Warning", "Removing not responding", Head(target))>> \o cleanUpLog(Tail(target), t)
         ELSE cleanUpLog(Tail(target), t)

\* The signal emitted inside the loop: once for each record removed.
cleanUp_emitEach(target, t) ==
    LET kept == cleanUpList(target, t)
        lines == cleanUpLog(target, t)
    IN [target |-> kept,
        out |-> [i \in 1..Len(lines) |-> FoundService(lines[i].rec.type, kept)],
        log |-> lines]

cleanUp(target, t) ==
    LET action == cleanUpAction(target, t, "Unknown")
        kept == cleanUpList(target, t)
    IN [target |-> kept,
        out |-> IF action # "Unknown" THEN <<FoundService(action, kept)>> ELSE <<>>,
        log |-> cleanUpLog(target, t)]

\* --------------------------------------------------------------- gotMessage
\* Lines 135-140 without the comparison: nothing is taken for the host's own address.
isLocal_never(message, local) == FALSE

\* Lines 135-140: the message's address is one of the host's own.
isLocal(message, local) == message.address \in local

\* Lines 144-149 with a comparison that never matches.
FirstEqual_never(target, message, i) == 0

\* Lines 144-149: the index of the first record of target equal to message, or 0.
RECURSIVE FirstEqual(_, _, _)
FirstEqual(target, message, i) ==
    IF i > Len(target) THEN 0
    ELSE IF RecEq(target[i], message) THEN i
    ELSE FirstEqual(target, message, i + 1)

\* Line 147 applied to every record instead of the one found.
refreshed_all(target, found, t) == [i \in 1..Len(target) |-> resetTTL(target[i], t)]

\* Line 147 guarded by the record still being alive.
refreshed_onlyLive(target, found, t) ==
    IF expired(target[found], t) THEN target
    ELSE [target EXCEPT ![found] = resetTTL(target[found], t)]

\* Line 147: rec.resetTTL() on the record found; the list is otherwise untouched.
refreshed(target, found, t) == [target EXCEPT ![found] = resetTTL(target[found], t)]

\* Lines 151-152 with the message put first.
appended_first(target, message) == <<message>> \o target

\* Lines 151-152: newSessions = target; newSessions.append(message).
appended(target, message) == Append(target, message)

\* Lines 156-160 comparing the address alone.
RECURSIVE Others_byAddress(_, _)
Others_byAddress(target, message) ==
    IF target = <<>> THEN <<>>
    ELSE IF Head(target).address # message.address
         THEN <<Head(target)>> \o Others_byAddress(Tail(target), message)
         ELSE Others_byAddress(Tail(target), message)

\* Lines 156-160: the records of target that differ from message, in order.
RECURSIVE Others(_, _)
Others(target, message) ==
    IF target = <<>> THEN <<>>
    ELSE IF ~RecEq(Head(target), message) THEN <<Head(target)>> \o Others(Tail(target), message)
         ELSE Others(Tail(target), message)

\* Line 169 ahead of line 168: the signal carries the list as it was.
gotMessage_emitsOld(target, message, t, local) ==
    IF isLocal(message, local)
    THEN [target |-> target, out |-> <<>>, log |-> <<>>, at |-> "return@139"]
    ELSE LET found == IF message.isExists THEN FirstEqual(target, message, 1) ELSE 0
             newSessions == IF message.isExists THEN appended(target, message)
                            ELSE Others(target, message)
         IN IF found # 0
            THEN [target |-> refreshed(target, found, t),
                  out |-> <<>>, log |-> <<>>, at |-> "return@148"]
            ELSE IF Len(target) # Len(newSessions)
                 THEN [target |-> newSessions,
                       out |-> <<FoundService(message.type, target)>>,
                       log |-> <<LogLine("Info", IF message.isExists THEN "Found" ELSE "Deregistered", message)>>,
                       at |-> "emit@169"]
                 ELSE [target |-> target, out |-> <<>>, log |-> <<>>, at |-> "end@171"]

gotMessage(target, message, t, local) ==
    IF isLocal(message, local)
    THEN [target |-> target, out |-> <<>>, log |-> <<>>, at |-> "return@139"]
    ELSE LET found == IF message.isExists THEN FirstEqual(target, message, 1) ELSE 0
             newSessions == IF message.isExists THEN appended(target, message)
                            ELSE Others(target, message)
         IN IF found # 0
            THEN [target |-> refreshed(target, found, t),
                  out |-> <<>>, log |-> <<>>, at |-> "return@148"]
            ELSE IF Len(target) # Len(newSessions)
                 THEN [target |-> newSessions,
                       out |-> <<FoundService(message.type, newSessions)>>,
                       log |-> <<LogLine("Info", IF message.isExists THEN "Found" ELSE "Deregistered", message)>>,
                       at |-> "emit@169"]
                 ELSE [target |-> target, out |-> <<>>, log |-> <<>>, at |-> "end@171"]

\* ----------------------------------------------------- discoveryEventHandler
\* Lines 181-186 with the lists of two branches exchanged.
Dispatch_swapped(type) ==
    CASE type = "HyperHDR" -> "_hyperhdrSessions"
      [] type = "WLED" -> "_wledDevices"
      [] type = "PhilipsHue" -> "_hueDevices"
      [] type = "Pico" -> "_espDevices"
      [] type = "ESP32_S2" -> "_esp32s2Devices"
      [] type = "ESP" -> "_picoDevices"
      [] OTHER -> "none"

\* The member list a message is handed to; "none" when no branch matches.
Dispatch(type) ==
    CASE type = "HyperHDR" -> "_hyperhdrSessions"
      [] type = "WLED" -> "_wledDevices"
      [] type = "PhilipsHue" -> "_hueDevices"
      [] type = "Pico" -> "_picoDevices"
      [] type = "ESP32_S2" -> "_esp32s2Devices"
      [] type = "ESP" -> "_espDevices"
      [] OTHER -> "none"

\* The number of records held, over the six lists.
TotalRecords(f) ==
    Len(f["_hyperhdrSessions"]) + Len(f["_esp32s2Devices"]) + Len(f["_espDevices"])
    + Len(f["_hueDevices"]) + Len(f["_picoDevices"]) + Len(f["_wledDevices"])

\* Lines 175-186 ending in a plain else: what no branch names goes to the first list.
dispatched_defaultsToFirst(l, message, t) ==
    LET store == IF Dispatch(message.type) = "none" THEN "_hyperhdrSessions"
                 ELSE Dispatch(message.type)
        r == gotMessage(l[store], message, t, allAddresses)
    IN [lists |-> [l EXCEPT ![store] = r.target], out |-> r.out, log |-> r.log, at |-> r.at]

\* Lines 175-186: the lists, the signals and the log after the message was handled.
dispatched(l, message, t) ==
    LET store == Dispatch(message.type) IN
    IF store = "none"
    THEN [lists |-> l, out |-> <<>>, log |-> <<>>, at |-> "end@187"]
    ELSE LET r == gotMessage(l[store], message, t, allAddresses)
         IN [lists |-> [l EXCEPT ![store] = r.target], out |-> r.out, log |-> r.log, at |-> r.at]

discoveryEventHandler(message) ==
    LET r == dispatched(lists, message, now) IN
    /\ lists' = r.lists
    /\ out' = r.out
    /\ log' = r.log
    /\ last' = [op |-> "discoveryEventHandler", at |-> r.at]
    /\ ret' = <<>>
    /\ UNCHANGED <<serialDevice, now>>

DiscoveryEvent ==
    \E message \in Sightings(now) :
        /\ discoveryEventHandler(message)
        /\ TotalRecords(lists') <= MaxRecords

\* ------------------------------------------------------ requestToScanHandler
\* What the slot does to _serialDevice and which collaborator calls it makes.
\* Lines 193-201 without the test of line 193: a device built on every request.
scanHandler_alwaysConstructs(type, device) ==
    IF type = "SerialPort"
    THEN [device |-> "adalight", out |-> <<Construct, Discover>>]
    ELSE [device |-> device, out |-> <<>>]

scanHandler(type, device) ==
    IF type = "SerialPort"
    THEN [device |-> "adalight",
          out |-> IF device = "nullptr" THEN <<Construct, Discover>> ELSE <<Discover>>]
    ELSE [device |-> device, out |-> <<>>]

requestToScanHandler(type) ==
    LET r == scanHandler(type, serialDevice) IN
    /\ serialDevice' = r.device
    /\ out' = r.out
    /\ log' = <<>>
    /\ ret' = <<>>
    /\ last' = [op |-> "requestToScanHandler", at |-> "end@203"]
    /\ UNCHANGED <<lists, now>>

RequestToScanEvent == \E type \in Service : requestToScanHandler(type)

\* ------------------------------------------------------------- public calls
\* emit requestToScan(type): the signal, and with a direct connection (the caller
\* runs on the object's thread) the slot's work inside the emit.
emitRequestToScan(type, device, direct) ==
    LET r == IF direct THEN scanHandler(type, device) ELSE [device |-> device, out |-> <<>>]
    IN [device |-> r.device, out |-> <<RequestToScan(type)>> \o r.out]

\* The list copied for the caller before the cleanup ran.
getServices_returnsStale(store, type, op, at, direct) ==
    LET c == cleanUp(lists[store], now)
        e == emitRequestToScan(type, serialDevice, direct)
    IN /\ lists' = [lists EXCEPT ![store] = c.target]
       /\ serialDevice' = e.device
       /\ out' = c.out \o e.out
       /\ log' = c.log
       /\ ret' = lists[store]
       /\ last' = [op |-> op, at |-> at]
       /\ UNCHANGED now

getServices(store, type, op, at, direct) ==
    LET c == cleanUp(lists[store], now)
        e == emitRequestToScan(type, serialDevice, direct)
    IN /\ lists' = [lists EXCEPT ![store] = c.target]
       /\ serialDevice' = e.device
       /\ out' = c.out \o e.out
       /\ log' = c.log
       /\ ret' = c.target
       /\ last' = [op |-> op, at |-> at]
       /\ UNCHANGED now

getPhilipsHUE == \E direct \in BOOLEAN : getServices("_hueDevices", "PhilipsHue", "getPhilipsHUE", "return@94", direct)

getWLED == \E direct \in BOOLEAN : getServices("_wledDevices", "WLED", "getWLED", "return@103", direct)

\* The getter cleaning its list first, as getWLED does.
getHyperHDRServices_cleans ==
    LET c == cleanUp(lists["_hyperhdrSessions"], now)
    IN /\ lists' = [lists EXCEPT !["_hyperhdrSessions"] = c.target]
       /\ ret' = c.target
       /\ out' = c.out
       /\ log' = c.log
       /\ last' = [op |-> "getHyperHDRServices", at |-> "return@108"]
       /\ UNCHANGED <<serialDevice, now>>

getHyperHDRServices ==
    /\ ret' = lists["_hyperhdrSessions"]
    /\ out' = <<>>
    /\ log' = <<>>
    /\ last' = [op |-> "getHyperHDRServices", at |-> "return@108"]
    /\ UNCHANGED <<lists, serialDevice, now>>

\* Line 113 with one of the six lists left out.
getAllServices_skipsEsp ==
    /\ ret' = lists["_hyperhdrSessions"] \o lists["_esp32s2Devices"]
               \o lists["_hueDevices"] \o lists["_picoDevices"] \o lists["_wledDevices"]
    /\ out' = <<>>
    /\ log' = <<>>
    /\ last' = [op |-> "getAllServices", at |-> "return@113"]
    /\ UNCHANGED <<lists, serialDevice, now>>

getAllServices ==
    /\ ret' = lists["_hyperhdrSessions"] \o lists["_esp32s2Devices"] \o lists["_espDevices"]
               \o lists["_hueDevices"] \o lists["_picoDevices"] \o lists["_wledDevices"]
    /\ out' = <<>>
    /\ log' = <<>>
    /\ last' = [op |-> "getAllServices", at |-> "return@113"]
    /\ UNCHANGED <<lists, serialDevice, now>>

\* Lines 118-123: the three network categories, each cleaned and then requested.
networkScan(l, device, direct) ==
    LET wled == cleanUp(l["_wledDevices"], now)
        e1 == emitRequestToScan("WLED", device, direct)
        hue == cleanUp(l["_hueDevices"], now)
        e2 == emitRequestToScan("PhilipsHue", e1.device, direct)
        hyperhdr == cleanUp(l["_hyperhdrSessions"], now)
        e3 == emitRequestToScan("HyperHDR", e2.device, direct)
    IN [lists |-> [l EXCEPT !["_wledDevices"] = wled.target,
                            !["_hueDevices"] = hue.target,
                            !["_hyperhdrSessions"] = hyperhdr.target],
        device |-> e3.device,
        out |-> wled.out \o e1.out \o hue.out \o e2.out \o hyperhdr.out \o e3.out,
        log |-> wled.log \o hue.log \o hyperhdr.log]

\* Lines 125-128 with the request emitted before the three cleanups.
serialScan_requestFirst(l, device, direct) ==
    LET e4 == emitRequestToScan("SerialPort", device, direct)
        esp32s2 == cleanUp(l["_esp32s2Devices"], now)
        esp == cleanUp(l["_espDevices"], now)
        pico == cleanUp(l["_picoDevices"], now)
    IN [lists |-> [l EXCEPT !["_esp32s2Devices"] = esp32s2.target,
                            !["_espDevices"] = esp.target,
                            !["_picoDevices"] = pico.target],
        device |-> e4.device,
        out |-> e4.out \o esp32s2.out \o esp.out \o pico.out,
        log |-> esp32s2.log \o esp.log \o pico.log]

\* Lines 125-128: the three serial categories cleaned, then the one SerialPort request.
serialScan(l, device, direct) ==
    LET esp32s2 == cleanUp(l["_esp32s2Devices"], now)
        esp == cleanUp(l["_espDevices"], now)
        pico == cleanUp(l["_picoDevices"], now)
        e4 == emitRequestToScan("SerialPort", device, direct)
    IN [lists |-> [l EXCEPT !["_esp32s2Devices"] = esp32s2.target,
                            !["_espDevices"] = esp.target,
                            !["_picoDevices"] = pico.target],
        device |-> e4.device,
        out |-> esp32s2.out \o esp.out \o pico.out \o e4.out,
        log |-> esp32s2.log \o esp.log \o pico.log]

requestServicesScanOn(direct) ==
    LET n == networkScan(lists, serialDevice, direct)
        r == serialScan(n.lists, n.device, direct)
    IN /\ lists' = r.lists
       /\ serialDevice' = r.device
       /\ out' = n.out \o r.out
       /\ log' = n.log \o r.log
       /\ ret' = <<>>
       /\ last' = [op |-> "requestServicesScan", at |-> "end@129"]
       /\ UNCHANGED now

requestServicesScan == \E direct \in BOOLEAN : requestServicesScanOn(direct)

\* ---------------------------------------------------------------- teardown
\* Lines 59-64: the device deleted if there is one and the pointer cleared; the
\* member lists end with the object.
destructor ==
    /\ out' = IF serialDevice # "nullptr" THEN <<Delete>> ELSE <<>>
    /\ serialDevice' = "nullptr"
    /\ lists' = [s \in Stores |-> <<>>]
    /\ log' = <<>>
    /\ ret' = <<>>
    /\ last' = [op |-> "~DiscoveryWrapper", at |-> "end@64"]
    /\ UNCHANGED now

\* No member is used once the destructor has run.
Alive == last.op # "~DiscoveryWrapper"

\* -------------------------------------------------------------- environment
Tick ==
    /\ now < MaxTime
    /\ now' = now + 1
    /\ out' = <<>>
    /\ log' = <<>>
    /\ ret' = <<>>
    /\ last' = [op |-> "tick", at |-> "clock"]
    /\ UNCHANGED <<lists, serialDevice>>

\* Lines 43-57: the object as the constructor leaves it.
DiscoveryWrapper ==
    /\ lists = [s \in Stores |-> <<>>]
    /\ serialDevice = "nullptr"
    /\ now = 0
    /\ out = <<>>
    /\ log = <<>>
    /\ ret = <<>>
    /\ last = [op |-> "DiscoveryWrapper", at |-> "end@57"]

\* ------------------------------------------------------------------ threads
\* How many posted calls the event queue of the object's thread holds at most.
MaxQueue == 2

\* The thread the DiscoveryWrapper lives in, the thread of a discovery source and
\* the thread of a caller of the public methods.
Threads == {"object", "source", "caller"}

\* A slot or method call with its argument.
Call(op, message) == [op |-> op, message |-> message]
Idle == Call("idle", <<>>)

\* The signals and calls that reach the object while it is shared between threads.
Emitters == {"object", "source"}
SourceSightings(t) ==
    {m \in Sightings(t) : /\ m.type = "WLED" /\ m.address = "10.0.0.5"
                          /\ m.port = 80 /\ m.hostName = "alpha"}
Queries == {"getWLED", "getAllServices", "requestServicesScan"}

\* Lines 55-56 with Qt::DirectConnection as fifth argument: the slot always runs
\* inside the emit, on the emitter's thread.
connection_direct(emitter, receiver) == "direct"

\* Lines 55-56: connect() without a fifth argument is Qt::AutoConnection, a direct
\* call when the signal is emitted on the receiver's thread and an event posted to
\* the receiver's thread otherwise.
connection(emitter, receiver) == IF emitter = receiver THEN "direct" ELSE "queued"

NoThreads ==
    /\ queue = <<>>
    /\ running = [t \in Threads |-> Idle]

\* A discovery source emits discoveryEvent(message) on its thread.
emitDiscoveryEvent(thread, message) ==
    /\ running[thread].op = "idle"
    /\ IF connection(thread, "object") = "queued"
       THEN /\ Len(queue) < MaxQueue
            /\ queue' = Append(queue, Call("discoveryEventHandler", message))
            /\ UNCHANGED running
       ELSE /\ running' = [running EXCEPT ![thread] = Call("discoveryEventHandler", message)]
            /\ UNCHANGED queue
    /\ UNCHANGED <<wrapperVars, fileVars>>

\* A caller asks for one of the public methods: the call is handed to the object's
\* thread, which runs it when its turn comes.
invoke(thread, op) ==
    /\ running[thread].op = "idle"
    /\ Len(queue) < MaxQueue
    /\ queue' = Append(queue, Call(op, <<>>))
    /\ UNCHANGED <<running, wrapperVars, fileVars>>

\* The event loop of the object's thread takes the next posted call.
processEvents ==
    /\ running["object"].op = "idle"
    /\ queue # <<>>
    /\ running' = [running EXCEPT !["object"] = Head(queue)]
    /\ queue' = Tail(queue)
    /\ UNCHANGED <<wrapperVars, fileVars>>

\* The call a thread is inside runs to its end; a signal it emits is delivered as
\* the connection of line 56 says for that thread.
return(thread) ==
    LET call == running[thread]
        direct == connection(thread, "object") = "direct"
    IN /\ call.op # "idle"
       /\ CASE call.op = "discoveryEventHandler" ->
                 discoveryEventHandler(call.message) /\ TotalRecords(lists') <= MaxRecords
            [] call.op = "getWLED" ->
                 getServices("_wledDevices", "WLED", "getWLED", "return@103", direct)
            [] call.op = "getAllServices" -> getAllServices
            [] call.op = "requestServicesScan" -> requestServicesScanOn(direct)
       /\ running' = [running EXCEPT ![thread] = Idle]
       /\ UNCHANGED <<queue, fileVars>>

\* The member lists a call changes, and those it reads.
Writes(call) ==
    CASE call.op = "discoveryEventHandler" -> {Dispatch(call.message.type)} \cap Stores
      [] call.op = "getWLED" -> {"_wledDevices"}
      [] call.op = "requestServicesScan" -> Stores
      [] OTHER -> {}

Reads(call) == IF call.op = "getAllServices" THEN Stores ELSE Writes(call)

NextThreads ==
    \/ \E thread \in Emitters, message \in SourceSightings(now) : emitDiscoveryEvent(thread, message)
    \/ \E op \in Queries : invoke("caller", op)
    \/ processEvents
    \/ \E thread \in Threads : return(thread)
    \/ Tick /\ UNCHANGED <<threadVars, fileVars>>

\* ------------------------------------------------------------- LedDeviceFile
\* How many lines are written to the file between two opens at most.
MaxWrites == 2

\* deviceConfig as init() reads it: "output" (absent or a path), "printTimeStamp".
DeviceConfigs == [output : {"absent", "/tmp/leds.txt", "/nodir/leds.txt"}, printTimeStamp : BOOLEAN]

\* Lines 7-13: the device as the constructor leaves it.
LedDeviceFile ==
    /\ file = "nullptr"
    /\ fileName = ""
    /\ printTimeStamp = FALSE
    /\ isDeviceReady = FALSE
    /\ isDeviceInError = FALSE
    /\ written = 0
    /\ retval = 0
    /\ fileLast = "LedDeviceFile"

\* Lines 25-50: initOK is what LedDevice::init() answers (1 for true, 0 for false).
init(deviceConfig, initOK) ==
    /\ fileName' = IF deviceConfig.output = "absent" THEN "/dev/null" ELSE deviceConfig.output
    /\ printTimeStamp' = deviceConfig.printTimeStamp
    /\ file' = IF file = "nullptr" THEN "closed" ELSE file
    /\ retval' = IF initOK THEN 1 ELSE 0
    /\ fileLast' = "init"
    /\ UNCHANGED <<isDeviceReady, isDeviceInError, written>>

\* Line 65: this->setInError(errortext) puts the device in its error state.
setInError(inError) == TRUE

\* Lines 52-74 without line 55: _isDeviceReady is left as it was unless the file opens.
open_keepsReady ==
    /\ file # "nullptr"
    /\ \E opened \in BOOLEAN :
          IF file # "open"
          THEN IF ~opened
               THEN /\ isDeviceInError' = setInError(isDeviceInError)
                    /\ retval' = -1
                    /\ UNCHANGED <<file, written, isDeviceReady>>
               ELSE /\ file' = "open"
                    /\ written' = 0
                    /\ isDeviceReady' = TRUE
                    /\ retval' = 0
                    /\ UNCHANGED isDeviceInError
          ELSE /\ retval' = -1
               /\ UNCHANGED <<file, written, isDeviceInError, isDeviceReady>>
    /\ fileLast' = "open"
    /\ UNCHANGED <<fileName, printTimeStamp>>

\* Lines 52-74, called once init() has created _file; opened is what
\* _file->open(WriteOnly | Text) answers, and a file opened for writing starts empty.
open ==
    /\ file # "nullptr"
    /\ \E opened \in BOOLEAN :
          IF file # "open"
          THEN IF ~opened
               THEN /\ isDeviceInError' = setInError(isDeviceInError)
                    /\ isDeviceReady' = FALSE
                    /\ retval' = -1
                    /\ UNCHANGED <<file, written>>
               ELSE /\ file' = "open"
                    /\ written' = 0
                    /\ isDeviceReady' = TRUE
                    /\ retval' = 0
                    /\ UNCHANGED isDeviceInError
          ELSE /\ isDeviceReady' = FALSE
               /\ retval' = -1
               /\ UNCHANGED <<file, written, isDeviceInError>>
    /\ fileLast' = "open"
    /\ UNCHANGED <<fileName, printTimeStamp>>

\* Lines 76-92.
close ==
    /\ isDeviceReady' = FALSE
    /\ file' = IF file = "open" THEN "closed" ELSE file
    /\ retval' = 0
    /\ fileLast' = "close"
    /\ UNCHANGED <<fileName, printTimeStamp, isDeviceInError, written>>

\* Lines 94-124, called once init() has created _file: one line goes through the
\* QTextStream, which reaches the file only while it is open.
write ==
    /\ file # "nullptr"
    /\ file = "open" => written < MaxWrites
    /\ written' = IF file = "open" THEN written + 1 ELSE written
    /\ retval' = 0
    /\ fileLast' = "write"
    /\ UNCHANGED <<file, fileName, printTimeStamp, isDeviceReady, isDeviceInError>>

NextFile ==
    \/ \E deviceConfig \in DeviceConfigs, initOK \in BOOLEAN :
          init(deviceConfig, initOK) /\ UNCHANGED <<wrapperVars, threadVars>>
    \/ open /\ UNCHANGED <<wrapperVars, threadVars>>
    \/ close /\ UNCHANGED <<wrapperVars, threadVars>>
    \/ write /\ UNCHANGED <<wrapperVars, threadVars>>

Init ==
    /\ DiscoveryWrapper
    /\ NoThreads
    /\ LedDeviceFile

\* The steps of the object while it is alive; the threads' bookkeeping and the
\* LedDeviceFile stay as they are.
Next ==
    \/ Alive /\ DiscoveryEvent /\ UNCHANGED <<threadVars, fileVars>>
    \/ Alive /\ RequestToScanEvent /\ UNCHANGED <<threadVars, fileVars>>
    \/ Alive /\ getPhilipsHUE /\ UNCHANGED <<threadVars, fileVars>>
    \/ Alive /\ getWLED /\ UNCHANGED <<threadVars, fileVars>>
    \/ Alive /\ getHyperHDRServices /\ UNCHANGED <<threadVars, fileVars>>
    \/ Alive /\ getAllServices /\ UNCHANGED <<threadVars, fileVars>>
    \/ Alive /\ requestServicesScan /\ UNCHANGED <<threadVars, fileVars>>
    \/ Alive /\ destructor /\ UNCHANGED <<threadVars, fileVars>>
    \/ Alive /\ Tick /\ UNCHANGED <<threadVars, fileVars>>

Spec == Init /\ [][Next]_vars

\* The object with what its scheduling guarantees: the clock advances and the slot
\* of a requested scan runs; nobody is bound to call the public methods.
SpecFair ==
    /\ Spec
    /\ WF_vars(Alive /\ Tick /\ UNCHANGED <<threadVars, fileVars>>)
    /\ WF_vars(Alive /\ RequestToScanEvent /\ UNCHANGED <<threadVars, fileVars>>)

\* The object shared between threads.
SpecThreads == Init /\ [][NextThreads]_vars

\* One LedDeviceFile and its callers.
SpecFile == Init /\ [][NextFile]_vars

\* ================================================================== claims
HasEqual(list, m) == \E i \in 1..Len(list) : RecEq(list[i], m)

Fresh(list, t) == \A i \in 1..Len(list) : ~expired(list[i], t)

Emitted(o, sig) == SelectSeq(o, LAMBDA e : e.sig = sig)

\* The sightings of a concrete, list-backed type that reach the merge from a foreign address.
ForeignSightings ==
    {m \in Sightings(now) : Dispatch(m.type) # "none" /\ m.address \notin allAddresses}

\* C1. Dedup: no list ever holds two records with the same type, address and port,
\* whatever sightings (with whatever host names) and cleanups have happened.
NoDuplicates ==
    \A s \in Stores : \A i, j \in 1..Len(lists[s]) :
        i # j => ~RecEq(lists[s][i], lists[s][j])

\* A repeated sighting has just been matched against its record in a list that
\* holds a second service of the same address.
NoDuplicatesWitness ==
    /\ last.at = "return@148"
    /\ \E s \in Stores : /\ Len(lists[s]) = 2
                         /\ lists[s][1].address = lists[s][2].address

\* C2. Refresh silence: in every reachable state, handling an exists=true sighting
\* from a foreign address whose record is already in its list emits nothing, keeps
\* every list's length, members and order, and changes only the expiry of the
\* matched record, to now + TTL.
RefreshSilence ==
    \A m \in ForeignSightings :
        LET s == Dispatch(m.type)
            r == dispatched(lists, m, now)
        IN (m.isExists /\ HasEqual(lists[s], m))
           => /\ r.out = <<>>
              /\ \A o \in Stores \ {s} : r.lists[o] = lists[o]
              /\ Len(r.lists[s]) = Len(lists[s])
              /\ \A i \in 1..Len(lists[s]) :
                    r.lists[s][i] = IF RecEq(lists[s][i], m)
                                    THEN [lists[s][i] EXCEPT !.expiry = now + TTL_WINDOW]
                                    ELSE lists[s][i]

\* The first of two records has just been refreshed: it now outlives the second,
\* which was added after it, and it kept its place.
RefreshSilenceWitness ==
    /\ last.at = "return@148" /\ out = <<>>
    /\ \E s \in Stores : /\ Len(lists[s]) = 2
                         /\ lists[s][1].expiry = now + TTL_WINDOW
                         /\ lists[s][2].expiry < now + TTL_WINDOW

\* C3. Add: in every reachable state, handling an exists=true sighting from a
\* foreign address with no equal record in its list appends it as the last
\* element, the earlier records keep their order, and exactly one foundService is
\* emitted, with the sighting's type and the new list.
AddAppends ==
    \A m \in ForeignSightings :
        LET s == Dispatch(m.type)
            r == dispatched(lists, m, now)
        IN (m.isExists /\ ~HasEqual(lists[s], m))
           => /\ Len(r.lists[s]) = Len(lists[s]) + 1
              /\ SubSeq(r.lists[s], 1, Len(lists[s])) = lists[s]
              /\ r.lists[s][Len(r.lists[s])] = m
              /\ r.out = <<FoundService(m.type, r.lists[s])>>
              /\ \A o \in Stores \ {s} : r.lists[o] = lists[o]

\* A second record has just been added behind an older one and announced.
AddAppendsWitness ==
    /\ last.at = "emit@169" /\ log[1].text = "Found"
    /\ Len(out) = 1 /\ Len(out[1].list) = 2
    /\ out[1].list[2] = log[1].rec
    /\ \E s \in Stores : lists[s] = out[1].list

\* C4. Deregistration: in every reachable state, handling an exists=false sighting
\* from a foreign address removes the equal record from its list, keeps the other
\* records in order and emits exactly one foundService with the type and the list
\* after the removal; with no equal record present the list is unchanged and
\* nothing is emitted.
Deregistration ==
    \A m \in ForeignSightings :
        LET s == Dispatch(m.type)
            r == dispatched(lists, m, now)
        IN ~m.isExists
           => /\ \A o \in Stores \ {s} : r.lists[o] = lists[o]
              /\ IF HasEqual(lists[s], m)
                 THEN /\ \E i \in 1..Len(lists[s]) :
                           /\ RecEq(lists[s][i], m)
                           /\ r.lists[s] = SubSeq(lists[s], 1, i - 1)
                                           \o SubSeq(lists[s], i + 1, Len(lists[s]))
                      /\ r.out = <<FoundService(m.type, r.lists[s])>>
                 ELSE /\ r.lists[s] = lists[s]
                      /\ r.out = <<>>

\* One of two records has just been deregistered; the other is still listed.
DeregistrationWitness ==
    /\ last.at = "emit@169" /\ log[1].text = "Deregistered"
    /\ Len(out) = 1 /\ Len(out[1].list) = 1
    /\ ~RecEq(out[1].list[1], log[1].rec)
    /\ \E s \in Stores : lists[s] = out[1].list

\* C5. Self-filter: in every reachable state, handling a sighting whose address is
\* one of the host's own changes no list and emits nothing, for every type and both
\* values of exists; and no list holds a record with one of the host's addresses.
SelfFilter ==
    /\ \A m \in Sightings(now) :
          m.address \in allAddresses
          => LET r == dispatched(lists, m, now) IN r.lists = lists /\ r.out = <<>>
    /\ \A s \in Stores : \A i \in 1..Len(lists[s]) :
          lists[s][i].address \notin allAddresses

\* The host's own announcement has just been dropped while other records are held.
SelfFilterWitness ==
    /\ last.at = "return@139" /\ out = <<>>
    /\ TotalRecords(lists) > 0

\* C6. cleanUp: in every reachable state, cleaning a list removes exactly its
\* expired records and keeps the others in order; with at least one removed it
\* emits one foundService for the call, with the list's category and the list
\* after the removal; with none expired it emits nothing and changes nothing.
CleanUpContract ==
    \A s \in Stores :
        LET c == cleanUp(lists[s], now)
            live == SelectSeq(lists[s], LAMBDA r : ~expired(r, now))
        IN /\ c.target = live
           /\ IF \E i \in 1..Len(lists[s]) : expired(lists[s][i], now)
              THEN c.out = <<FoundService(TypeOf(s), live)>>
              ELSE c.out = <<>> /\ c.target = lists[s]

\* A query has just removed two expired records of one list in a single call and
\* emitted one foundService for both.
CleanUpContractWitness ==
    /\ last.op \in {"getWLED", "getPhilipsHUE"}
    /\ Len(log) = 2
    /\ Len(Emitted(out, "foundService")) = 1
    /\ out[1] = FoundService(log[1].rec.type, <<>>)

\* The steps the store-freshness statement calls processing steps.
ProcessingSteps ==
    {"discoveryEventHandler", "requestToScanHandler", "getPhilipsHUE", "getWLED",
     "getHyperHDRServices", "getAllServices", "requestServicesScan"}

\* C7 as stated: after every processing step, every record of every list, and of
\* the list a query returned, has its expiry in the future.
StoreFreshness ==
    last.op \in ProcessingSteps
    => /\ \A s \in Stores : Fresh(lists[s], now)
       /\ Fresh(ret, now)

\* C7 as amended: a list holds no expired record right after a step that ran
\* cleanUp on it (getWLED and getPhilipsHUE for their own list, whose content they
\* return; requestServicesScan for all six).
CleanedListsFresh ==
    /\ last.op = "getWLED" => Fresh(lists["_wledDevices"], now) /\ Fresh(ret, now)
    /\ last.op = "getPhilipsHUE" => Fresh(lists["_hueDevices"], now) /\ Fresh(ret, now)
    /\ last.op = "requestServicesScan" => \A s \in Stores : Fresh(lists[s], now)

\* requestServicesScan has just removed two expired records.
CleanedListsFreshWitness ==
    /\ last.op = "requestServicesScan"
    /\ Len(log) = 2
    /\ TotalRecords(lists) = 0

\* C8. getWLED and getPhilipsHUE: the call cleans its list, then emits exactly one
\* requestToScan, for its own category, after any foundService of the cleanup, and
\* returns the list as the cleanup left it: no expired record, and equal to the
\* list held when the call returns.
GetServicesContract ==
    \A q \in {<<"getWLED", "_wledDevices", "WLED">>, <<"getPhilipsHUE", "_hueDevices", "PhilipsHue">>} :
        last.op = q[1]
        => /\ ret = lists[q[2]]
           /\ Fresh(ret, now)
           /\ Emitted(out, "requestToScan") = <<RequestToScan(q[3])>>
           /\ \A i, j \in 1..Len(out) :
                 (out[i].sig = "foundService" /\ out[j].sig = "requestToScan") => i < j
           /\ \A i \in 1..Len(out) :
                 out[i].sig = "foundService" => out[i] = FoundService(q[3], ret)

\* getWLED has just removed one expired record, announced the rest, requested the
\* scan and returned the record that is left.
GetServicesContractWitness ==
    /\ last.op = "getWLED"
    /\ Len(log) = 1 /\ Len(ret) = 1
    /\ out = <<FoundService("WLED", ret), RequestToScan("WLED")>>

\* The scan request that covers a category.
ScanOf(type) == IF type \in {"Pico", "ESP", "ESP32_S2"} THEN "SerialPort" ELSE type

\* C9. requestServicesScan: after the call all six lists are clean; it emitted
\* exactly four requestToScan, one each for WLED, PhilipsHue, HyperHDR and
\* SerialPort and none for Pico, ESP or ESP32_S2; and every foundService of a
\* cleanup precedes the request that covers its category.
RequestServicesScanContract ==
    last.op = "requestServicesScan"
    => LET reqs == Emitted(out, "requestToScan") IN
       /\ \A s \in Stores : Fresh(lists[s], now)
       /\ Len(reqs) = 4
       /\ {reqs[i].type : i \in 1..Len(reqs)} = {"WLED", "PhilipsHue", "HyperHDR", "SerialPort"}
       /\ \A i, j \in 1..Len(out) :
             (/\ out[i].sig = "foundService" /\ out[j].sig = "requestToScan"
              /\ out[j].type = ScanOf(out[i].type)) => i < j

\* requestServicesScan has just removed an expired network record and an expired
\* serial record, each announced before its own request.
RequestServicesScanContractWitness ==
    /\ last.op = "requestServicesScan"
    /\ \E i, j \in 1..Len(out) :
          /\ out[i].sig = "foundService" /\ out[i].type \in {"WLED", "PhilipsHue", "HyperHDR"}
          /\ out[j].sig = "foundService" /\ out[j].type \in {"Pico", "ESP", "ESP32_S2"}

\* C10. getHyperHDRServices and getAllServices are pure reads: the step changes no
\* list (no record removed, no expiry changed), emits no signal and logs nothing.
PureReads ==
    [][last'.op \in {"getHyperHDRServices", "getAllServices"}
       => (lists' = lists /\ serialDevice' = serialDevice /\ out' = <<>> /\ log' = <<>>)]_vars

\* A getter has returned a list holding a record that had already expired, and
\* the record is still held.
PureReadsWitness ==
    /\ last.op \in {"getHyperHDRServices", "getAllServices"}
    /\ Len(ret) = 2 /\ ~Fresh(ret, now)
    /\ TotalRecords(lists) = 2

EveryConcreteCategoryStored ==
    \A m \in Sightings(now) :
        (m.type # "Unknown" /\ m.isExists /\ m.address \notin allAddresses)
        => \E s \in Stores : HasEqual(dispatched(lists, m, now).lists[s], m)

\* C12 as amended: a sighting of HyperHDR, WLED, PhilipsHue, Pico, ESP32_S2 or ESP
\* changes at most the list of its own category, and every signal it causes
\* carries that category; a sighting of SerialPort or Unknown changes no list and
\* emits nothing.
DispatchByCategory ==
    \A m \in Sightings(now) :
        LET r == dispatched(lists, m, now) IN
        IF m.type \in {"SerialPort", "Unknown"}
        THEN r.lists = lists /\ r.out = <<>>
        ELSE /\ \A s \in Stores : TypeOf(s) # m.type => r.lists[s] = lists[s]
             /\ \A i \in 1..Len(r.out) : r.out[i].type = m.type
             /\ (m.isExists /\ m.address \notin allAddresses)
                => \E s \in Stores : TypeOf(s) = m.type /\ HasEqual(r.lists[s], m)

\* A Pico sighting has just been added to the Pico list while another list holds
\* a record of its own.
DispatchByCategoryWitness ==
    /\ last.op = "discoveryEventHandler" /\ last.at = "emit@169"
    /\ out = <<FoundService("Pico", lists["_picoDevices"])>>
    /\ Len(lists["_picoDevices"]) = 1
    /\ TotalRecords(lists) = 2

\* C14. Notification after commit: every foundService a step emits carries the
\* list of its category as the step leaves it, and no step emits two for one category.
NotificationAfterCommit ==
    /\ \A i \in 1..Len(out) :
          out[i].sig = "foundService"
          => \E s \in Stores : TypeOf(s) = out[i].type /\ out[i].list = lists[s]
    /\ \A i, j \in 1..Len(out) :
          (i # j /\ out[i].sig = "foundService" /\ out[j].sig = "foundService")
          => out[i].type # out[j].type

\* The only record of a list has just been deregistered: the signal carries the
\* empty list, not the one that held the record.
NotificationAfterCommitWitness ==
    /\ last.at = "emit@169" /\ Len(log) = 1 /\ log[1].text = "Deregistered"
    /\ out = <<FoundService(log[1].rec.type, <<>>)>>
    /\ TotalRecords(lists) = 1

\* C18. Store homogeneity: every record of a list has the list's category, so the
\* category cleanUp takes from the last record it removes is the list's own and
\* is never Unknown when a record was removed.
StoreHomogeneity ==
    \A s \in Stores :
        /\ \A i \in 1..Len(lists[s]) : lists[s][i].type = TypeOf(s)
        /\ LET action == cleanUpAction(lists[s], now, "Unknown") IN
           IF \E i \in 1..Len(lists[s]) : expired(lists[s][i], now)
           THEN action = TypeOf(s)
           ELSE action = "Unknown"

\* requestServicesScan has just removed an expired ESP record and reported ESP,
\* while a record of another category is still held.
StoreHomogeneityWitness ==
    /\ last.op = "requestServicesScan"
    /\ Len(log) = 1 /\ log[1].rec.type = "ESP"
    /\ \E i \in 1..Len(out) : out[i] = FoundService("ESP", <<>>)
    /\ TotalRecords(lists) = 1

\* C19. Silent revival: handling a sighting removes no expired record other than
\* one it deregisters; an exists=true sighting equal to an expired record resets
\* its expiry and emits nothing, and a cleanUp that follows keeps the record and
\* emits nothing for it.
SilentRevival ==
    \A m \in ForeignSightings :
        LET s == Dispatch(m.type)
            r == dispatched(lists, m, now)
        IN /\ \A i \in 1..Len(lists[s]) :
                (expired(lists[s][i], now) /\ (m.isExists \/ ~RecEq(lists[s][i], m)))
                => HasEqual(r.lists[s], lists[s][i])
           /\ \A i \in 1..Len(lists[s]) :
                (m.isExists /\ RecEq(lists[s][i], m) /\ expired(lists[s][i], now))
                => /\ r.out = <<>>
                   /\ ~expired(r.lists[s][i], now)
                   /\ LET c == cleanUp(r.lists[s], now) IN
                      /\ HasEqual(c.target, m)
                      /\ \A k \in 1..Len(c.log) : ~RecEq(c.log[k].rec, m)
                      /\ \A k \in 1..Len(c.out) : HasEqual(c.out[k].list, m)

\* The first of two expired records has just been sighted again: it is alive and
\* nothing was emitted, while the second is still held, expired.
SilentRevivalWitness ==
    /\ last.at = "return@148" /\ out = <<>>
    /\ \E s \in Stores : /\ Len(lists[s]) = 2
                         /\ lists[s][1].expiry = now + TTL_WINDOW
                         /\ expired(lists[s][2], now)

\* How often a step emitted or called sig.
Count(o, sig) == Cardinality({i \in 1..Len(o) : o[i].sig = sig})

\* C13. The serial device's lifecycle: a SerialPort scan request constructs the
\* device only when there is none and then calls discover() exactly once on it; a
\* request of any other category constructs nothing, calls nothing and changes no
\* list; no step constructs twice, and a device once constructed stays the same
\* until the destructor deletes it.
SerialHandleLifecycle ==
    [][/\ \A type \in Service :
            LET r == scanHandler(type, serialDevice) IN
            IF type = "SerialPort"
            THEN /\ r.device # "nullptr"
                 /\ serialDevice # "nullptr" => r.device = serialDevice
                 /\ Count(r.out, "construct") = IF serialDevice = "nullptr" THEN 1 ELSE 0
                 /\ Count(r.out, "discover") = 1
                 /\ r.out[Len(r.out)] = Discover
            ELSE r.device = serialDevice /\ r.out = <<>>
       /\ last'.op = "requestToScanHandler" => lists' = lists
       /\ Count(out', "construct") <= 1
       /\ Count(out', "construct") = 1 => (serialDevice = "nullptr" /\ serialDevice' # "nullptr")
       /\ Count(out', "discover") <= 1
       /\ Count(out', "discover") = 1 => serialDevice' # "nullptr"
       /\ serialDevice # "nullptr"
          => IF last'.op = "~DiscoveryWrapper"
             THEN serialDevice' = "nullptr" /\ out' = <<Delete>>
             ELSE serialDevice' = serialDevice
       /\ last'.op \in {"discoveryEventHandler", "getHyperHDRServices", "getAllServices", "tick"}
          => serialDevice' = serialDevice
      ]_vars

\* A second SerialPort request has just been handled with the device of the
\* first: discover() was called and nothing was constructed.
SerialHandleLifecycleWitness ==
    /\ last.op = "requestToScanHandler"
    /\ out = <<Discover>>
    /\ serialDevice # "nullptr"
    /\ TotalRecords(lists) > 0

\* C16 as stated: a call of getWLED, getPhilipsHUE or requestServicesScan returns
\* without the scan handler having run inside it: nothing was constructed, discover()
\* was not called and _serialDevice is as it was before the call.
NonBlockingScanTrigger ==
    last.op \in {"getWLED", "getPhilipsHUE", "requestServicesScan"}
    => /\ Count(out, "construct") = 0
       /\ Count(out, "discover") = 0

\* C20. LedDeviceFile after init(): open() leaves _isDeviceReady true exactly when
\* it returns 0, which it does only when the file was closed and is now open; a
\* failed open returns -1 and sets the error state; open() on an open file returns
\* -1 and leaves the device not ready without touching the error state; close()
\* returns 0, leaves the device not ready and the file not open, and a close()
\* after a close() changes nothing.
OpenCloseStateMachine ==
    [][/\ fileLast' = "open"
          => /\ retval' \in {-1, 0}
             /\ isDeviceReady' = (retval' = 0)
             /\ retval' = 0 <=> (file = "closed" /\ file' = "open")
             /\ (file = "closed" /\ file' = "closed") => isDeviceInError'
             /\ file = "open"
                => /\ retval' = -1 /\ ~isDeviceReady'
                   /\ file' = "open" /\ isDeviceInError' = isDeviceInError
       /\ fileLast' = "close"
          => /\ retval' = 0 /\ ~isDeviceReady' /\ file' # "open"
             /\ fileLast = "close"
                => /\ file' = file /\ isDeviceReady' = isDeviceReady
                   /\ isDeviceInError' = isDeviceInError /\ written' = written
      ]_vars

\* open() has just been called on a file that was already open: it returned -1
\* and the device is not ready although the file is open and holds a line.
OpenCloseStateMachineWitness ==
    /\ fileLast = "open" /\ retval = -1
    /\ file = "open" /\ written > 0
    /\ ~isDeviceReady /\ ~isDeviceInError

HoldsExpired(s) == \E i \in 1..Len(lists[s]) : expired(lists[s][i], now)

\* The lists on which a call runs cleanUp.
Cleaned(op) ==
    CASE op \in {"getWLED"} -> {"_wledDevices"}
      [] op \in {"getPhilipsHUE"} -> {"_hueDevices"}
      [] op \in {"requestServicesScan"} -> Stores
      [] OTHER -> {}

\* C17 as stated: a record that has expired and is not sighted again is eventually
\* gone from its list.
ExpiredEventuallyRemoved ==
    \A s \in Stores : HoldsExpired(s) ~> ~HoldsExpired(s)

\* C17 as amended: while the object lives, an expired record leaves its list in
\* the first step that runs cleanUp on that list (getWLED, getPhilipsHUE,
\* requestServicesScan) and in no other step unless it is deregistered, a record
\* that has not expired leaves only by deregistration, and a record not held
\* enters a list only when an exists=true sighting of it is handled.
ExpiryByCleanUp ==
    [][last'.op # "~DiscoveryWrapper"
       => \A s \in Stores :
            /\ \A i \in 1..Len(lists[s]) :
                  LET rec == lists[s][i] IN
                  /\ (s \in Cleaned(last'.op) /\ expired(rec, now)) => ~HasEqual(lists'[s], rec)
                  /\ ~HasEqual(lists'[s], rec)
                     => \/ s \in Cleaned(last'.op) /\ expired(rec, now)
                        \/ /\ last'.op = "discoveryEventHandler" /\ last'.at = "emit@169"
                           /\ log'[1].text = "Deregistered" /\ RecEq(log'[1].rec, rec)
            /\ \A i \in 1..Len(lists'[s]) :
                  ~HasEqual(lists[s], lists'[s][i])
                  => /\ last'.op = "discoveryEventHandler" /\ last'.at = "emit@169"
                     /\ log'[1].text = "Found" /\ log'[1].rec.isExists
                     /\ RecEq(log'[1].rec, lists'[s][i])
      ]_vars

\* getWLED has just removed an expired record that nobody deregistered and kept
\* the one that has not expired.
ExpiryByCleanUpWitness ==
    /\ last.op = "getWLED"
    /\ Len(log) = 1 /\ log[1].text = "Removing not responding"
    /\ Len(lists["_wledDevices"]) = 1
    /\ ~HasEqual(lists["_wledDevices"], log[1].rec)

====
